---- MODULE Spec2Model ----
(***************************************************************************)
(* A model of driver/registry_default.go (ORY Kratos): the RegistryDefault *)
(* composition root.  Four groups of state are modelled, each with the     *)
(* operations that touch it:                                               *)
(*   - persistence bootstrap: Init and its backoff.Retry loop              *)
(*   - strategy dispatch: the cached capability lists and their getters    *)
(*   - the metrics manager singleton, built under the registry lock        *)
(*   - the session cookie store built by CookieManager                     *)
(***************************************************************************)
EXTENDS Integers, Sequences, FiniteSets, TLC

VARIABLES
    \* persistence bootstrap
    dsn,            \* m.c.DSN(): the configured data source name
    persister,      \* m.persister
    ipc,            \* per caller of Init: its position inside Init
    elapsed,        \* per caller: bc.GetElapsedTime() of the running backoff.Retry
    calls,          \* per caller: Init calls started so far
    conn,           \* per caller: the closure's local c (*pop.Connection)
    p,              \* per caller: the closure's local p (*sql.Persister)
    migrateCalls,   \* MigrateUp invocations seen by the database so far
    \* strategy dispatch
    enabled,        \* the ids with m.c.SelfServiceStrategy(id).Enabled
    implements,     \* per capability: the strategies its type assertion accepts
    selfserviceStrategies,
    registrationStrategies,
    loginStrategies,
    verificationStrategies,
    activeCredentialsCounterStrategies,
    ret,            \* what the latest getter call returned
    rpc,            \* per request goroutine: its position inside a getter
    rcap,           \* per request goroutine: the getter it is running
    rrange,         \* per request goroutine: what its range loop has left
    rtmp,           \* per request goroutine: the slice append() has read
    rcalls,         \* per request goroutine: getter calls started so far
    \* metrics manager
    rwl,            \* m.rwl: the goroutine holding the lock, or nobody
    pmm,            \* m.pmm
    mpc,            \* per scraping goroutine: its position in PrometheusManager
    mret,           \* per scraping goroutine: what its latest call returned
    managersBuilt,  \* prometheus.NewMetricsManager calls so far
    \* session cookie store
    session,        \* the session part of the configuration m.c
    sessionsStore,  \* m.sessionsStore
    cret,           \* what the latest CookieManager call returned
    storesBuilt     \* sessions.NewCookieStore calls made by CookieManager

initVars == <<dsn, persister, ipc, elapsed, calls, conn, p, migrateCalls>>

stratVars == <<enabled, implements, selfserviceStrategies,
               registrationStrategies, loginStrategies, verificationStrategies,
               activeCredentialsCounterStrategies, ret, rpc, rcap, rrange, rtmp,
               rcalls>>

pmmVars == <<rwl, pmm, mpc, mret, managersBuilt>>

cookieVars == <<session, sessionsStore, cret, storesBuilt>>

vars == <<initVars, stratVars, pmmVars, cookieVars>>

\* What the operations of one part of the registry leave alone.
notBootstrap == <<stratVars, pmmVars, cookieVars>>

notStrategies == <<initVars, pmmVars, cookieVars>>

notMetrics == <<initVars, stratVars, cookieVars>>

notCookies == <<initVars, stratVars, pmmVars>>

\* The nil pointer / nil interface value.
Nil == [nil |-> TRUE]

\* The closure's local c before pop.NewConnection has returned one.
NoConn == "none"

\* No getter call has returned since the configuration last changed.
NoCall == [cap |-> "none", val |-> <<>>, built |-> FALSE]

\* Goroutines that call Init.
Callers == {"g1", "g2"}

\* Goroutines that serve requests.
Requests == {"r1", "r2"}

\* Goroutines that ask for the metrics manager.
Scrapers == {"m1", "m2", "m3"}

\* The lock is held by nobody.
Unlocked == "unlocked"

\* A goroutine that has not got anything back from a call yet.
NotReturned == [none |-> TRUE]

\* The four strategies that selfServiceStrategies registers, by mechanism id.
Strategies == {"password", "oidc", "profile", "link"}

\* The capabilities that the four cached getters select by type assertion.
Capabilities == {"registration", "login", "verification", "counter"}

\* NewRegistryDefault(): the zero value of every bootstrap field.
BootstrapZero ==
    /\ persister = Nil
    /\ ipc = [c \in Callers |-> "idle"]
    /\ elapsed = [c \in Callers |-> 0]
    /\ calls = [c \in Callers |-> 0]
    /\ conn = [c \in Callers |-> NoConn]
    /\ p = [c \in Callers |-> Nil]
    /\ migrateCalls = 0

\* NewRegistryDefault(): the zero value of every strategy field, and no
\* request in flight.
StrategiesZero ==
    /\ selfserviceStrategies = <<>>
    /\ registrationStrategies = <<>>
    /\ loginStrategies = <<>>
    /\ verificationStrategies = <<>>
    /\ activeCredentialsCounterStrategies = <<>>
    /\ ret = NoCall
    /\ rpc = [r \in Requests |-> "idle"]
    /\ rcap = [r \in Requests |-> "none"]
    /\ rrange = [r \in Requests |-> <<>>]
    /\ rtmp = [r \in Requests |-> <<>>]
    /\ rcalls = [r \in Requests |-> 0]

\* The strategy state while only other parts of the registry are exercised.
StrategiesIdle ==
    /\ StrategiesZero
    /\ enabled = Strategies
    /\ implements = [cap \in Capabilities |-> Strategies]

\* NewRegistryDefault(): no metrics manager, the lock free.
MetricsZero ==
    /\ rwl = Unlocked
    /\ pmm = Nil
    /\ mpc = [g \in Scrapers |-> "idle"]
    /\ mret = [g \in Scrapers |-> NotReturned]
    /\ managersBuilt = 0

\* NewRegistryDefault(): no cookie store.
CookiesZero ==
    /\ sessionsStore = Nil
    /\ cret = NotReturned
    /\ storesBuilt = 0

\* The cookie state while only other parts of the registry are exercised.
CookiesIdle ==
    /\ CookiesZero
    /\ session = [persistent |-> FALSE, lifespan |-> 0, devMode |-> FALSE,
                  domain |-> "", path |-> "", sameSite |-> 0]

(***************************************************************************)
(* Persistence bootstrap                                                   *)
(***************************************************************************)

\* dbal.InMemoryDSN, the DSN that line 483 compares the configuration with.
InMemoryDSN == "memory"

\* The DSNs a configuration may hold: the in-memory one and a durable one.
DSNs == {InMemoryDSN, "postgres"}

\* bc.MaxElapsedTime (five minutes in the code), in units of the shortest
\* backoff interval.
MaxElapsedTime == 1

\* The longest one attempt may take, in the same unit.  It exceeds
\* MaxElapsedTime: a single slow attempt can use up the whole budget.
MaxAttemptTime == MaxElapsedTime + 1

\* Init calls one caller makes at most.
MaxCalls == 2

\* Positions of one attempt, i.e. one run of the closure given to backoff.Retry.
AttemptSteps == {"connect", "open", "newPersister", "ping", "migrate", "assign"}

\* Positions at which no Init call of the caller is running.
Finished == {"idle", "returned_nil", "returned_err", "panicked"}

\* A fresh registry with a configuration that holds one of the DSNs.
InitInit ==
    /\ dsn \in DSNs
    /\ BootstrapZero
    /\ StrategiesIdle
    /\ MetricsZero
    /\ CookiesIdle

\* Init's entry: the guard on m.persister, then a fresh backoff and the first
\* run of the closure.
InitCall(c) ==
    /\ ipc[c] \in Finished
    /\ calls[c] < MaxCalls
    /\ calls' = [calls EXCEPT ![c] = @ + 1]
    /\ IF persister # Nil
          THEN /\ ipc' = [ipc EXCEPT ![c] = "panicked"]
               /\ UNCHANGED elapsed
          ELSE /\ ipc' = [ipc EXCEPT ![c] = "connect"]
               /\ elapsed' = [elapsed EXCEPT ![c] = 0]
    /\ UNCHANGED <<dsn, persister, conn, p, migrateCalls>>
    /\ UNCHANGED notBootstrap

\* A faulty retry: the next attempt resumes at the step that failed, with the
\* locals of the failed attempt, instead of starting over.
RetryFromFailedStep(c) ==
    /\ UNCHANGED <<conn, p>>
    /\ \E dt \in 0..MaxAttemptTime :
          IF elapsed[c] + dt > MaxElapsedTime
             THEN /\ ipc' = [ipc EXCEPT ![c] = "returned_err"]
                  /\ UNCHANGED elapsed
             ELSE /\ elapsed' = [elapsed EXCEPT ![c] = @ + dt + 1]
                  /\ UNCHANGED ipc

\* The closure returned an error after an attempt that took dt: backoff.Retry
\* asks bc.NextBackOff(), which yields backoff.Stop once the elapsed time
\* exceeds MaxElapsedTime, and then Init returns the error; otherwise it yields
\* an interval, Retry sleeps for it and runs the closure again from its first
\* statement.  The closure's locals die with the attempt.
RetryOrGiveUp(c) ==
    /\ conn' = [conn EXCEPT ![c] = NoConn]
    /\ p' = [p EXCEPT ![c] = Nil]
    /\ \E dt \in 0..MaxAttemptTime :
          IF elapsed[c] + dt > MaxElapsedTime
             THEN /\ ipc' = [ipc EXCEPT ![c] = "returned_err"]
                  /\ UNCHANGED elapsed
             ELSE /\ elapsed' = [elapsed EXCEPT ![c] = @ + dt + 1]
                  /\ ipc' = [ipc EXCEPT ![c] = "connect"]

\* pop.NewConnection
NewConnection(c) ==
    /\ ipc[c] = "connect"
    /\ \E ok \in BOOLEAN :
          IF ok
             THEN /\ conn' = [conn EXCEPT ![c] = "created"]
                  /\ ipc' = [ipc EXCEPT ![c] = "open"]
                  /\ UNCHANGED <<elapsed, p>>
             ELSE RetryOrGiveUp(c)
    /\ UNCHANGED <<dsn, persister, calls, migrateCalls>>
    /\ UNCHANGED notBootstrap

\* c.Open()
Open(c) ==
    /\ ipc[c] = "open"
    /\ \E ok \in BOOLEAN :
          IF ok
             THEN /\ conn' = [conn EXCEPT ![c] = "opened"]
                  /\ ipc' = [ipc EXCEPT ![c] = "newPersister"]
                  /\ UNCHANGED <<elapsed, p>>
             ELSE RetryOrGiveUp(c)
    /\ UNCHANGED <<dsn, persister, calls, migrateCalls>>
    /\ UNCHANGED notBootstrap

\* A faulty construction step: the new persister is stored in the registry at
\* once, before it has been pinged or migrated.
NewPersisterPublishedEarly(c) ==
    /\ ipc[c] = "newPersister"
    /\ \E ok \in BOOLEAN :
          IF ok
             THEN /\ p' = [p EXCEPT ![c] = [by |-> c, call |-> calls[c],
                                            conn |-> conn[c],
                                            pinged |-> FALSE,
                                            migrated |-> FALSE]]
                  /\ persister' = p'[c]
                  /\ ipc' = [ipc EXCEPT ![c] = "ping"]
                  /\ UNCHANGED <<elapsed, conn>>
             ELSE RetryOrGiveUp(c) /\ UNCHANGED persister
    /\ UNCHANGED <<dsn, calls, migrateCalls>>
    /\ UNCHANGED notBootstrap

\* sql.NewPersister(m, c)
NewPersister(c) ==
    /\ ipc[c] = "newPersister"
    /\ \E ok \in BOOLEAN :
          IF ok
             THEN /\ p' = [p EXCEPT ![c] = [by |-> c, call |-> calls[c],
                                            conn |-> conn[c],
                                            pinged |-> FALSE,
                                            migrated |-> FALSE]]
                  /\ ipc' = [ipc EXCEPT ![c] = "ping"]
                  /\ UNCHANGED <<elapsed, conn>>
             ELSE RetryOrGiveUp(c)
    /\ UNCHANGED <<dsn, persister, calls, migrateCalls>>
    /\ UNCHANGED notBootstrap

\* A faulty branch: the migration is skipped whatever the DSN.
AfterPingWithoutMigration(d) == "assign"

\* The branch after a successful ping: migrate when the DSN is the in-memory one.
AfterPing(d) == IF InMemoryDSN = d THEN "migrate" ELSE "assign"

\* p.Ping()
Ping(c) ==
    /\ ipc[c] = "ping"
    /\ \E ok \in BOOLEAN :
          IF ok
             THEN /\ p' = [p EXCEPT ![c].pinged = TRUE]
                  /\ ipc' = [ipc EXCEPT ![c] = AfterPing(dsn)]
                  /\ UNCHANGED <<elapsed, conn>>
             ELSE RetryOrGiveUp(c)
    /\ UNCHANGED <<dsn, persister, calls, migrateCalls>>
    /\ UNCHANGED notBootstrap

\* p.MigrateUp(ctx)
MigrateUp(c) ==
    /\ ipc[c] = "migrate"
    /\ migrateCalls' = migrateCalls + 1
    /\ \E ok \in BOOLEAN :
          IF ok
             THEN /\ p' = [p EXCEPT ![c].migrated = TRUE]
                  /\ ipc' = [ipc EXCEPT ![c] = "assign"]
                  /\ UNCHANGED <<elapsed, conn>>
             ELSE RetryOrGiveUp(c)
    /\ UNCHANGED <<dsn, persister, calls>>
    /\ UNCHANGED notBootstrap

\* m.persister = p; return nil
Assign(c) ==
    /\ ipc[c] = "assign"
    /\ persister' = p[c]
    /\ ipc' = [ipc EXCEPT ![c] = "returned_nil"]
    /\ conn' = [conn EXCEPT ![c] = NoConn]
    /\ p' = [p EXCEPT ![c] = Nil]
    /\ UNCHANGED <<dsn, elapsed, calls, migrateCalls>>
    /\ UNCHANGED notBootstrap

\* One step of a running Init call.
InitStep(c) ==
    \/ NewConnection(c)
    \/ Open(c)
    \/ NewPersister(c)
    \/ Ping(c)
    \/ MigrateUp(c)
    \/ Assign(c)

NextInit ==
    \/ \E c \in Callers : InitCall(c)
    \/ \E c \in Callers : NewConnection(c)
    \/ \E c \in Callers : Open(c)
    \/ \E c \in Callers : NewPersister(c)
    \/ \E c \in Callers : Ping(c)
    \/ \E c \in Callers : MigrateUp(c)
    \/ \E c \in Callers : Assign(c)

SpecInit == InitInit /\ [][NextInit]_vars

\* Init calls made one at a time: a caller enters Init only while no other
\* call is running (process startup calls Init from a single goroutine).
InitCallSeq(c) ==
    /\ \A d \in Callers : ipc[d] \in Finished
    /\ InitCall(c)

NextInitSeq ==
    \/ \E c \in Callers : InitCallSeq(c)
    \/ \E c \in Callers : NewConnection(c)
    \/ \E c \in Callers : Open(c)
    \/ \E c \in Callers : NewPersister(c)
    \/ \E c \in Callers : Ping(c)
    \/ \E c \in Callers : MigrateUp(c)
    \/ \E c \in Callers : Assign(c)

SpecInitSeq == InitInit /\ [][NextInitSeq]_vars

\* A running Init call is not suspended forever: every blocking call of an
\* attempt returns and backoff.Retry's sleep ends.
FairSpecInit == SpecInit /\ \A c \in Callers : WF_vars(InitStep(c))

\* The persister accessors (Persister, IdentityPool, PrivilegedIdentityPool,
\* the flow persisters, ...) all return the field.
Persister == persister

\* A persister built on an opened connection, pinged, and migrated when the DSN
\* is the in-memory one.
FullyInitialized(x) ==
    /\ x.conn = "opened"
    /\ x.pinged
    /\ (dsn = InMemoryDSN => x.migrated)

(***************************************************************************)
(* Claims about the persistence bootstrap                                  *)
(***************************************************************************)

\* Some Init call has already come to its end (returned or panicked).
PriorCallCompleted == \E d \in Callers : calls[d] >= 1 /\ ipc[d] \in Finished

\* C1: every Init call made after an earlier call has finished panics, whatever
\* the earlier call's outcome; no such call starts a connection attempt.
C1_LaterCallsPanic ==
    [][\A c \in Callers :
          (calls'[c] = calls[c] + 1 /\ PriorCallCompleted)
             => ipc'[c] = "panicked"]_vars

\* C2: a failed attempt is followed by an attempt that starts at connect with
\* fresh locals; Init returns nil only out of the assignment that ends a fully
\* successful attempt and an error only out of a failed step; and every running
\* Init call eventually returns nil or an error.
C2_RetryRestartsAndInitReturns ==
    /\ [][\A c \in Callers :
             /\ elapsed'[c] > elapsed[c]
                   => /\ ipc[c] \in AttemptSteps \ {"assign"}
                      /\ ipc'[c] = "connect"
                      /\ conn'[c] = NoConn
                      /\ p'[c] = Nil
             /\ (ipc'[c] = "returned_nil" /\ ipc[c] # "returned_nil")
                   => /\ ipc[c] = "assign"
                      /\ FullyInitialized(p[c])
                      /\ persister' = p[c]
             /\ (ipc'[c] = "returned_err" /\ ipc[c] # "returned_err")
                   => ipc[c] \in AttemptSteps \ {"assign"}]_vars
    /\ \A c \in Callers :
          (ipc[c] \in AttemptSteps) ~> (ipc[c] \in {"returned_nil", "returned_err"})

\* C2 witness: an Init call returned nil after at least one failed attempt.
C2_Witness ==
    \E c \in Callers : ipc[c] = "returned_nil" /\ elapsed[c] > 0

\* C6: with the in-memory DSN every persister that Init sets, and so every
\* successful Init, has been migrated, and migration happens only on a pinged
\* persister; with any other DSN MigrateUp is never called.
C6_MigrateIffMemory ==
    /\ dsn # InMemoryDSN
          => /\ migrateCalls = 0
             /\ \A c \in Callers : ipc[c] # "migrate"
    /\ dsn = InMemoryDSN
          => /\ persister # Nil => (persister.migrated /\ persister.pinged)
             /\ \A c \in Callers :
                   ipc[c] = "returned_nil" => (persister # Nil /\ persister.migrated)
    /\ \A c \in Callers : (p[c] # Nil /\ p[c].migrated) => p[c].pinged

\* C6 witness: Init succeeded with the in-memory DSN after a run of MigrateUp
\* that failed and one that succeeded.
C6_Witness ==
    /\ dsn = InMemoryDSN
    /\ migrateCalls >= 2
    /\ \E c \in Callers : ipc[c] = "returned_nil"
    /\ persister # Nil

C9_PersisterSetOnce == [][persister # Nil => persister' = persister]_vars

(***************************************************************************)
(* Strategy dispatch                                                       *)
(***************************************************************************)

\* Which strategies satisfy which capability interface is decided by the
\* strategy packages; the getters only see the outcome of the type assertion.
\* Two outcomes are explored: password and oidc register, log in and count
\* credentials while link verifies, and every strategy satisfying everything.
ImplementsChoices ==
    { [cap \in Capabilities |->
          IF cap = "verification" THEN {"link"} ELSE {"password", "oidc"}],
      [cap \in Capabilities |-> Strategies] }

\* selfServiceStrategies(): the list it returns, which is also the field's
\* value after the call.
selfServiceStrategies(cur) ==
    IF Len(cur) = 0 THEN <<"password", "oidc", "profile", "link">> ELSE cur

\* A faulty registration filter: the Enabled test is left out.
RegistrationAcceptsDisabled(s) == s \in implements["registration"]

\* The conditions under which each getter's loop appends strategy s.
RegistrationAccepts(s) == s \in implements["registration"] /\ s \in enabled

LoginAccepts(s) == s \in implements["login"] /\ s \in enabled

VerificationAccepts(s) == s \in implements["verification"]

CounterAccepts(s) == s \in implements["counter"]

Accepts(cap, s) ==
    CASE cap = "registration" -> RegistrationAccepts(s)
      [] cap = "login" -> LoginAccepts(s)
      [] cap = "verification" -> VerificationAccepts(s)
      [] cap = "counter" -> CounterAccepts(s)

\* The cached list a getter works on.
Cached(cap) ==
    CASE cap = "registration" -> registrationStrategies
      [] cap = "login" -> loginStrategies
      [] cap = "verification" -> verificationStrategies
      [] cap = "counter" -> activeCredentialsCounterStrategies

\* Assignment to the cached list of cap; the other three stay.
SetCached(cap, v) ==
    /\ registrationStrategies' =
          IF cap = "registration" THEN v ELSE registrationStrategies
    /\ loginStrategies' = IF cap = "login" THEN v ELSE loginStrategies
    /\ verificationStrategies' =
          IF cap = "verification" THEN v ELSE verificationStrategies
    /\ activeCredentialsCounterStrategies' =
          IF cap = "counter" THEN v ELSE activeCredentialsCounterStrategies

\* The getter's range loop run to its end: each accepted strategy of rest is
\* appended to list, in order.
RECURSIVE RangeLoop(_, _, _)
RangeLoop(cap, list, rest) ==
    IF rest = <<>>
       THEN list
       ELSE RangeLoop(cap,
                      IF Accepts(cap, Head(rest))
                         THEN Append(list, Head(rest))
                         ELSE list,
                      Tail(rest))

\* One whole getter call: build the cached list if it is empty, return it.
Getter(cap) ==
    /\ \A r \in Requests : rpc[r] = "idle"
    /\ IF Len(Cached(cap)) = 0
          THEN /\ selfserviceStrategies' = selfServiceStrategies(selfserviceStrategies)
               /\ SetCached(cap, RangeLoop(cap, Cached(cap),
                                           selfServiceStrategies(selfserviceStrategies)))
               /\ ret' = [cap |-> cap,
                          val |-> RangeLoop(cap, Cached(cap),
                                            selfServiceStrategies(selfserviceStrategies)),
                          built |-> TRUE]
          ELSE /\ ret' = [cap |-> cap, val |-> Cached(cap), built |-> FALSE]
               /\ UNCHANGED <<selfserviceStrategies, registrationStrategies,
                              loginStrategies, verificationStrategies,
                              activeCredentialsCounterStrategies>>
    /\ UNCHANGED <<enabled, implements, rpc, rcap, rrange, rtmp, rcalls>>
    /\ UNCHANGED notStrategies

RegistrationStrategies == Getter("registration")

LoginStrategies == Getter("login")

VerificationStrategies == Getter("verification")

ActiveCredentialsCounterStrategies == Getter("counter")

\* The operator changes the configuration: mechanism id is enabled or disabled.
\* Whatever was returned before is no longer the latest answer.
SetStrategyEnabled(id, on) ==
    /\ \A r \in Requests : rpc[r] = "idle"
    /\ enabled' = IF on THEN enabled \cup {id} ELSE enabled \ {id}
    /\ enabled' # enabled
    /\ ret' = NoCall
    /\ UNCHANGED <<implements, selfserviceStrategies, registrationStrategies,
                   loginStrategies, verificationStrategies,
                   activeCredentialsCounterStrategies, rpc, rcap, rrange, rtmp,
                   rcalls>>
    /\ UNCHANGED notStrategies

\* A fresh registry, any configuration of enabled mechanisms.
InitStrategies ==
    /\ dsn = InMemoryDSN
    /\ BootstrapZero
    /\ StrategiesZero
    /\ enabled \in SUBSET Strategies
    /\ implements \in ImplementsChoices
    /\ MetricsZero
    /\ CookiesIdle

\* Requests served one at a time, with configuration changes in between.
NextStrategies ==
    \/ RegistrationStrategies
    \/ LoginStrategies
    \/ VerificationStrategies
    \/ ActiveCredentialsCounterStrategies
    \/ \E id \in Strategies, on \in BOOLEAN : SetStrategyEnabled(id, on)

SpecStrategies == InitStrategies /\ [][NextStrategies]_vars

\* Getter calls one request goroutine makes at most.
MaxRequestCalls == 1

\* The same getters, step by step, for request goroutines that run them at
\* the same time without any lock.

\* The len(...) == 0 test and, if it holds, the call of selfServiceStrategies()
\* that the range statement evaluates once.
GetterEnter(r, cap) ==
    /\ rpc[r] = "idle"
    /\ rcalls[r] < MaxRequestCalls
    /\ rcalls' = [rcalls EXCEPT ![r] = @ + 1]
    /\ rcap' = [rcap EXCEPT ![r] = cap]
    /\ IF Len(Cached(cap)) = 0
          THEN /\ selfserviceStrategies' = selfServiceStrategies(selfserviceStrategies)
               /\ rrange' = [rrange EXCEPT ![r] = selfserviceStrategies']
               /\ rpc' = [rpc EXCEPT ![r] = "range"]
          ELSE /\ rpc' = [rpc EXCEPT ![r] = "return"]
               /\ UNCHANGED <<selfserviceStrategies, rrange>>
    /\ UNCHANGED <<enabled, implements, registrationStrategies, loginStrategies,
                   verificationStrategies, activeCredentialsCounterStrategies,
                   ret, rtmp>>
    /\ UNCHANGED notStrategies

\* One iteration up to append's read of the field: the type assertion, the
\* Enabled test, and the slice that append(m.xStrategies, s) is handed.
GetterTest(r) ==
    /\ rpc[r] = "range"
    /\ IF rrange[r] = <<>>
          THEN /\ rpc' = [rpc EXCEPT ![r] = "return"]
               /\ UNCHANGED <<rrange, rtmp>>
          ELSE IF Accepts(rcap[r], Head(rrange[r]))
                  THEN /\ rtmp' = [rtmp EXCEPT ![r] = Cached(rcap[r])]
                       /\ rpc' = [rpc EXCEPT ![r] = "append"]
                       /\ UNCHANGED rrange
                  ELSE /\ rrange' = [rrange EXCEPT ![r] = Tail(@)]
                       /\ UNCHANGED <<rpc, rtmp>>
    /\ UNCHANGED <<enabled, implements, selfserviceStrategies,
                   registrationStrategies, loginStrategies, verificationStrategies,
                   activeCredentialsCounterStrategies, ret, rcap, rcalls>>
    /\ UNCHANGED notStrategies

\* The assignment of append's result to the field.
GetterAppend(r) ==
    /\ rpc[r] = "append"
    /\ SetCached(rcap[r], Append(rtmp[r], Head(rrange[r])))
    /\ rrange' = [rrange EXCEPT ![r] = Tail(@)]
    /\ rtmp' = [rtmp EXCEPT ![r] = <<>>]
    /\ rpc' = [rpc EXCEPT ![r] = "range"]
    /\ UNCHANGED <<enabled, implements, selfserviceStrategies, ret, rcap, rcalls>>
    /\ UNCHANGED notStrategies

\* return m.xStrategies
GetterReturn(r) ==
    /\ rpc[r] = "return"
    /\ rpc' = [rpc EXCEPT ![r] = "idle"]
    /\ rcap' = [rcap EXCEPT ![r] = "none"]
    /\ UNCHANGED <<enabled, implements, selfserviceStrategies,
                   registrationStrategies, loginStrategies, verificationStrategies,
                   activeCredentialsCounterStrategies, ret, rrange, rtmp, rcalls>>
    /\ UNCHANGED notStrategies

NextConcurrentStrategies ==
    \/ \E r \in Requests, cap \in Capabilities : GetterEnter(r, cap)
    \/ \E r \in Requests : GetterTest(r)
    \/ \E r \in Requests : GetterAppend(r)
    \/ \E r \in Requests : GetterReturn(r)

SpecConcurrentStrategies == InitStrategies /\ [][NextConcurrentStrategies]_vars

(***************************************************************************)
(* Claims about strategy dispatch                                          *)
(***************************************************************************)

\* The strategies a list holds.
Members(list) == {list[i] : i \in 1..Len(list)}

\* A list without repetition.
NoDuplicates(list) == Cardinality(Members(list)) = Len(list)

\* C3: what RegistrationStrategies / LoginStrategies return after the latest
\* configuration change holds exactly the strategies of that capability whose
\* mechanism is enabled now: a disabled one is gone, a re-enabled one is back.
C3_FollowsConfiguration ==
    ret.cap \in {"registration", "login"}
       => \A s \in Strategies :
             s \in Members(ret.val) <=> (s \in implements[ret.cap] /\ s \in enabled)

\* C4 as stated: the set a getter builds holds exactly the registered
\* strategies that implement its capability and are enabled, for each of the
\* four getters.
C4_BuiltSetIsImplementedAndEnabled ==
    ret.built
       => Members(ret.val) = {s \in Strategies : s \in implements[ret.cap] /\ s \in enabled}

\* C4 as amended: the set RegistrationStrategies or LoginStrategies builds
\* holds exactly the registered strategies that implement the capability and
\* are enabled; the set VerificationStrategies or
\* ActiveCredentialsCounterStrategies builds holds exactly the registered
\* strategies that implement the capability, enabled or not.
C4_BuiltSetPerGetter ==
    ret.built
       => /\ ret.cap \in {"registration", "login"}
                => Members(ret.val) =
                      {s \in Strategies : s \in implements[ret.cap] /\ s \in enabled}
          /\ ret.cap \in {"verification", "counter"}
                => Members(ret.val) = {s \in Strategies : s \in implements[ret.cap]}

\* C4 witness: both kinds of getter have built their set while link was
\* disabled; the verification set holds link, the registration set holds only
\* enabled strategies and not all of the implementing ones.
C4_Witness ==
    /\ ret.built
    /\ ret.cap = "registration"
    /\ "link" \notin enabled
    /\ "link" \in Members(verificationStrategies)
    /\ Members(ret.val) # {}
    /\ Members(ret.val) # implements["registration"]

\* C10: no cached strategy list holds a strategy twice.
C10_NoDuplicates ==
    /\ NoDuplicates(registrationStrategies)
    /\ NoDuplicates(loginStrategies)
    /\ NoDuplicates(verificationStrategies)
    /\ NoDuplicates(activeCredentialsCounterStrategies)

(***************************************************************************)
(* The metrics manager                                                     *)
(***************************************************************************)

\* A faulty lock: Lock() returns although another goroutine holds it.
LockNeverWaits(g) == TRUE

\* m.rwl.Lock() returns only when nobody holds the lock.
LockAvailable(g) == rwl = Unlocked

\* m.rwl.Lock()
PmLock(g) ==
    /\ mpc[g] = "idle"
    /\ LockAvailable(g)
    /\ rwl' = g
    /\ mpc' = [mpc EXCEPT ![g] = "check"]
    /\ UNCHANGED <<pmm, mret, managersBuilt>>
    /\ UNCHANGED notMetrics

\* if m.pmm == nil
PmCheck(g) ==
    /\ mpc[g] = "check"
    /\ mpc' = [mpc EXCEPT ![g] = IF pmm = Nil THEN "construct" ELSE "return"]
    /\ UNCHANGED <<rwl, pmm, mret, managersBuilt>>
    /\ UNCHANGED notMetrics

\* m.pmm = prometheus.NewMetricsManager(...): every call of the constructor
\* yields a manager of its own.
PmConstruct(g) ==
    /\ mpc[g] = "construct"
    /\ managersBuilt' = managersBuilt + 1
    /\ pmm' = [by |-> g, n |-> managersBuilt + 1]
    /\ mpc' = [mpc EXCEPT ![g] = "return"]
    /\ UNCHANGED <<rwl, mret>>
    /\ UNCHANGED notMetrics

\* return m.pmm: the result is read while the lock is still held.
PmReturn(g) ==
    /\ mpc[g] = "return"
    /\ mret' = [mret EXCEPT ![g] = pmm]
    /\ mpc' = [mpc EXCEPT ![g] = "unlock"]
    /\ UNCHANGED <<rwl, pmm, managersBuilt>>
    /\ UNCHANGED notMetrics

\* The deferred m.rwl.Unlock(), after which the caller has the result.
PmUnlock(g) ==
    /\ mpc[g] = "unlock"
    /\ rwl' = Unlocked
    /\ mpc' = [mpc EXCEPT ![g] = "idle"]
    /\ UNCHANGED <<pmm, mret, managersBuilt>>
    /\ UNCHANGED notMetrics

\* A fresh registry; the other parts stay as they are.
InitMetrics ==
    /\ dsn = InMemoryDSN
    /\ BootstrapZero
    /\ StrategiesIdle
    /\ MetricsZero
    /\ CookiesIdle

NextMetrics ==
    \/ \E g \in Scrapers : PmLock(g)
    \/ \E g \in Scrapers : PmCheck(g)
    \/ \E g \in Scrapers : PmConstruct(g)
    \/ \E g \in Scrapers : PmReturn(g)
    \/ \E g \in Scrapers : PmUnlock(g)

SpecMetrics == InitMetrics /\ [][NextMetrics]_vars

\* Positions between Lock and Unlock.
InCriticalSection == {"check", "construct", "return", "unlock"}

\* C5: the metrics manager is constructed at most once, every call that has
\* returned got that one manager, and no two goroutines are between the nil
\* check and the assignment at the same time.
C5_ManagerBuiltOnce ==
    /\ managersBuilt <= 1
    /\ (pmm # Nil) <=> (managersBuilt = 1)
    /\ \A g \in Scrapers : mret[g] # NotReturned => (mret[g] # Nil /\ mret[g] = pmm)
    /\ \A g, h \in Scrapers :
          (mpc[g] \in InCriticalSection /\ mpc[h] \in InCriticalSection) => g = h

\* C5 witness: all goroutines have called, one built the manager and the
\* others got the same one.
C5_Witness ==
    /\ \A g \in Scrapers : mret[g] # NotReturned /\ mret[g] = pmm
    /\ managersBuilt = 1

(***************************************************************************)
(* The session cookie store                                                *)
(***************************************************************************)

\* Session lifespans a configuration may hold, in milliseconds.
Lifespans == {0, 999, 1000, 1500, 2000, 3600000}

\* The session settings a configuration may hold.
SessionConfigs ==
    [persistent : BOOLEAN, lifespan : Lifespans, devMode : BOOLEAN,
     domain : {"", "example.org"}, path : {"", "/auth"}, sameSite : {0, 2}]

\* int(d.Seconds()) for a time.Duration of ms milliseconds: the float is
\* truncated towards zero.
Seconds(ms) == IF ms >= 0 THEN ms \div 1000 ELSE -((-ms) \div 1000)

\* A faulty max-age: the lifespan is used whether or not persistent cookies
\* are enabled.
MaxAgeIgnoringPersistence(cfg) == Seconds(cfg.lifespan)

\* cs.Options.MaxAge as lines 389-392 leave it.
MaxAge(cfg) == IF cfg.persistent THEN Seconds(cfg.lifespan) ELSE 0

\* The store CookieManager builds from configuration cfg; "/" is the path and
\* 0 the same-site mode that sessions.NewCookieStore starts with.
NewSessionsStore(cfg, n) ==
    [id |-> n,
     Secure |-> ~cfg.devMode,
     HttpOnly |-> TRUE,
     Domain |-> cfg.domain,
     Path |-> IF cfg.path # "" THEN cfg.path ELSE "/",
     SameSite |-> cfg.sameSite,
     MaxAge |-> MaxAge(cfg)]

\* CookieManager(): build the store if there is none, return it.
CookieManager ==
    /\ IF sessionsStore = Nil
          THEN /\ sessionsStore' = NewSessionsStore(session, storesBuilt + 1)
               /\ storesBuilt' = storesBuilt + 1
          ELSE UNCHANGED <<sessionsStore, storesBuilt>>
    /\ cret' = sessionsStore'
    /\ UNCHANGED session
    /\ UNCHANGED notCookies

\* The operator changes the session settings.
SetSessionConfig(cfg) ==
    /\ cfg # session
    /\ session' = cfg
    /\ UNCHANGED <<sessionsStore, cret, storesBuilt>>
    /\ UNCHANGED notCookies

\* A fresh registry, any session settings.
InitCookies ==
    /\ dsn = InMemoryDSN
    /\ BootstrapZero
    /\ StrategiesIdle
    /\ MetricsZero
    /\ CookiesZero
    /\ session \in SessionConfigs

NextCookies ==
    \/ CookieManager
    \/ \E cfg \in SessionConfigs : SetSessionConfig(cfg)

SpecCookies == InitCookies /\ [][NextCookies]_vars

\* C7: the store CookieManager builds has max-age 0 if persistent session
\* cookies are disabled at that moment and the lifespan in whole seconds if
\* they are enabled; it is built once, and every call returns that store,
\* unchanged.
C7_CookieMaxAge ==
    /\ [][(sessionsStore = Nil /\ sessionsStore' # Nil)
             => /\ ~session.persistent => sessionsStore'.MaxAge = 0
                /\ session.persistent
                      => /\ sessionsStore'.MaxAge * 1000 <= session.lifespan
                         /\ session.lifespan < (sessionsStore'.MaxAge + 1) * 1000]_vars
    /\ [][sessionsStore # Nil => sessionsStore' = sessionsStore]_vars
    /\ [](cret # NotReturned => (cret # Nil /\ cret = sessionsStore))
    /\ [](storesBuilt <= 1)

\* C7 witness: a store built with persistent cookies and a lifespan that is
\* no whole number of seconds is returned again after persistent cookies were
\* switched off.
C7_Witness ==
    /\ cret # NotReturned
    /\ cret = sessionsStore
    /\ sessionsStore.MaxAge = 1
    /\ ~session.persistent
    /\ session.lifespan = 1500

====
